---- MODULE Spec2Model ----
(***************************************************************************)
(* State-machine model of BOMComparison.py: the Streamlit script that      *)
(* reconciles an SAP bill of materials with a PLM one.                     *)
(*                                                                         *)
(* Text values on which the program does string work (a size list that is  *)
(* split and trimmed, a Match_Key that is scored) are sequences of         *)
(* one-character strings: "S, M" is <<"S", ",", " ", "M">>.  Values that   *)
(* are only compared for equality (Style, Material_ID, Size_Split_ID) are  *)
(* plain strings.  A data frame is a sequence of rows, a row a function    *)
(* from column names to values.                                            *)
(***************************************************************************)
EXTENDS Integers, Sequences, FiniteSets, TLC

VARIABLES
    sap_file,              \* uploaded SAP table, as read by read_file
    plm_file,              \* uploaded PLM table
    size_chart_file,       \* uploaded size chart
    similarity_threshold,  \* the slider's value
    pc,                    \* where the script run stands
    cache,                 \* st.cache_data's store of run_matching_logic
    sap_df,                \* SAP frame after renaming, with Match_Key
    plm_exploded_df,       \* PLM frame after merge and explode: [idx, row]
    next_row,              \* position of the SAP row the loop handles next
    results,               \* the list of result dicts being built
    provenance,            \* per result: the SAP row and exploded PLM row in it
    matched_plm_indices,   \* index labels of matched PLM rows
    final_report_df,       \* the report the page works on
    final_provenance,      \* provenance of final_report_df
    Consumption_Diff       \* the column added to matched_df, one entry per row

vars == <<sap_file, plm_file, size_chart_file, similarity_threshold, pc, cache,
          sap_df, plm_exploded_df, next_row, results, provenance,
          matched_plm_indices, final_report_df, final_provenance,
          Consumption_Diff>>

---------------------------------------------------------------------------
(* Bounds of the model.                                                    *)

MaxSap == 2
MaxPlm == 2

---------------------------------------------------------------------------
(* Strings.                                                                *)

\* A missing cell (pandas NaN): no text is equal to it.
NaN == <<"NaN">>

\* Python's ord() on the characters the model uses.
Ord(c) ==
    CASE c = " " -> 32
      [] c = "," -> 44
      [] c = "1" -> 49
      [] c = "M" -> 77
      [] c = "S" -> 83
      [] c = "_" -> 95
      [] c = "a" -> 97
      [] c = "b" -> 98
      [] c = "r" -> 114

\* str.lower() on one character.
Lower(c) ==
    CASE c = "M" -> "m"
      [] c = "S" -> "s"
      [] OTHER -> c

\* A character the regular expression \W matches: neither a letter, a digit
\* nor the underscore.
IsNonWord(c) == c \in {" ", ","}

RECURSIVE LStrip(_)
LStrip(s) ==
    IF s # <<>> /\ Head(s) = " " THEN LStrip(Tail(s)) ELSE s

RECURSIVE RStrip(_)
RStrip(s) ==
    IF s # <<>> /\ s[Len(s)] = " " THEN RStrip(SubSeq(s, 1, Len(s) - 1)) ELSE s

\* str.strip()
Strip(s) == RStrip(LStrip(s))

\* str.split(sep) for a one-character separator: always at least one piece.
RECURSIVE Split(_, _)
Split(s, sep) ==
    IF \E k \in 1..Len(s) : s[k] = sep
    THEN LET k == CHOOSE j \in 1..Len(s) :
                      s[j] = sep /\ \A h \in 1..(j - 1) : s[h] # sep
         IN  <<SubSeq(s, 1, k - 1)>> \o Split(SubSeq(s, k + 1, Len(s)), sep)
    ELSE <<s>>

\* str.split() without argument: pieces between runs of blanks, none empty.
SplitWs(s) == SelectSeq(Split(s, " "), LAMBDA t : t # <<>>)

\* sep.join(parts)
RECURSIVE Join(_, _)
Join(parts, sep) ==
    IF parts = <<>> THEN <<>>
    ELSE IF Len(parts) = 1 THEN parts[1]
    ELSE parts[1] \o sep \o Join(Tail(parts), sep)

\* s < t for Python strings: by code point, a proper prefix first.
RECURSIVE StrLess(_, _)
StrLess(s, t) ==
    IF t = <<>> THEN FALSE
    ELSE IF s = <<>> THEN TRUE
    ELSE IF Ord(Head(s)) # Ord(Head(t)) THEN Ord(Head(s)) < Ord(Head(t))
    ELSE StrLess(Tail(s), Tail(t))

\* sorted(tokens)
RECURSIVE Sorted(_)
Sorted(tokens) ==
    IF tokens = <<>> THEN <<>>
    ELSE LET rest == Sorted(Tail(tokens))
             x == Head(tokens)
             before == SelectSeq(rest, LAMBDA t : StrLess(t, x))
             after == SelectSeq(rest, LAMBDA t : ~StrLess(t, x))
         IN  before \o <<x>> \o after

\* thefuzz utils.full_process: non-word characters to blanks, lower case, strip.
full_process(s) ==
    Strip([k \in 1..Len(s) |-> IF IsNonWord(s[k]) THEN " " ELSE Lower(s[k])])

\* Length of a longest common subsequence.
RECURSIVE Lcs(_, _)
Lcs(s, t) ==
    IF s = <<>> \/ t = <<>> THEN 0
    ELSE IF Head(s) = Head(t) THEN 1 + Lcs(Tail(s), Tail(t))
    ELSE LET x == Lcs(Tail(s), t)
             y == Lcs(s, Tail(t))
         IN  IF x >= y THEN x ELSE y

\* int(round(100 * n / d)) with Python's round-half-to-even.
RoundPercent(n, d) ==
    LET q == (100 * n) \div d
        r == (100 * n) % d
    IN  IF 2 * r < d THEN q
        ELSE IF 2 * r > d THEN q + 1
        ELSE IF q % 2 = 0 THEN q ELSE q + 1

\* fuzz.ratio: the normalized Indel similarity, 2 * LCS / (len1 + len2), in percent.
ratio(s, t) ==
    IF Len(s) + Len(t) = 0 THEN 100
    ELSE RoundPercent(2 * Lcs(s, t), Len(s) + Len(t))

\* fuzz.token_sort_ratio on processed text: sort the blank-separated tokens of
\* each side, join them with one blank, and take the ratio.
token_sort_ratio(s1, s2) ==
    LET norm(s) == Join(Sorted(SplitWs(full_process(s))), <<" ">>)
    IN  ratio(norm(s1), norm(s2))

---------------------------------------------------------------------------
(* Rows and frames.  Every frame of the model has at least one row, so its *)
(* columns are those of its first row.                                     *)

Columns(df) == DOMAIN df[1]

Rows(df) == {df[k] : k \in 1..Len(df)}

\* Boolean indexing, df[mask]: the positions of the rows of df that are among
\* kept, in row order.
Where(df, kept) == SelectSeq([k \in 1..Len(df) |-> k], LAMBDA k : df[k] \in kept)

RECURSIVE Concat(_)
Concat(seqs) == IF seqs = <<>> THEN <<>> ELSE Head(seqs) \o Concat(Tail(seqs))

\* DataFrame.rename(columns=mapping) on one row.
RenameRow(row, mapping) ==
    LET new(k) == IF k \in DOMAIN mapping THEN mapping[k] ELSE k
    IN  [c \in {new(k) : k \in DOMAIN row} |->
            row[CHOOSE k \in DOMAIN row : new(k) = c]]

Rename(df, mapping) == [k \in 1..Len(df) |-> RenameRow(df[k], mapping)]

SapRenames ==
    ("Material" :> "Material_ID") @@ ("Customer Style" :> "Style")
    @@ ("Vendor Reference" :> "Vendor_Ref") @@ ("Comp.Qty." :> "SAP_Consumption")
    @@ ("Component Grv" :> "Size")

PlmRenames ==
    ("Material" :> "Material_ID") @@ ("Customer Style" :> "Style")
    @@ ("Vendor Reference" :> "Vendor_Ref") @@ ("Qty(Cons.)" :> "PLM_Consumption")
    @@ ("Size Split" :> "Size_Split_ID")

SizeChartRenames == ("Size Split" :> "Size_Split_ID") @@ ("Size List" :> "Size")

\* pd.merge(plm, chart[['Size_Split_ID', 'Size']], on='Size_Split_ID', how='left'):
\* one row per chart entry of the PLM row's id, in chart order; a PLM row without
\* entry is kept, with a missing Size.  The result is numbered anew from 0.
MergeLeft(plm, chart) ==
    Concat([k \in 1..Len(plm) |->
        LET hits == Where(chart, {c \in Rows(chart) :
                        c["Size_Split_ID"] = plm[k]["Size_Split_ID"]})
        IN  IF hits = <<>>
            THEN <<("Size" :> NaN) @@ plm[k]>>
            ELSE [j \in 1..Len(hits) |-> ("Size" :> chart[hits[j]]["Size"]) @@ plm[k]]])

\* Explode without line 82: the pieces keep their blanks.
Explode_unstripped(merged) ==
    Concat([k \in 1..Len(merged) |->
        LET text == IF merged[k]["Size"] = NaN THEN <<>> ELSE merged[k]["Size"]
            labels == Split(text, ",")
        IN  [j \in 1..Len(labels) |->
                [idx |-> k - 1,
                 row |-> [merged[k] EXCEPT !["Size"] = labels[j]]]]])

\* fillna('').astype(str).str.split(','), explode('Size'), str.strip(): one record
\* per piece of the size list, each keeping the index label of the merged row.
Explode(merged) ==
    Concat([k \in 1..Len(merged) |->
        LET text == IF merged[k]["Size"] = NaN THEN <<>> ELSE merged[k]["Size"]
            labels == Split(text, ",")
        IN  [j \in 1..Len(labels) |->
                [idx |-> k - 1,
                 row |-> [merged[k] EXCEPT !["Size"] = Strip(labels[j])]]]])

\* The composite key: three columns joined by "_".
WithMatchKey(row, c1, c2, c3) ==
    ("Match_Key" :> row[c1] \o <<"_">> \o row[c2] \o <<"_">> \o row[c3]) @@ row

\* The columns whose absence raises KeyError in lines 75-99, outside the loop's try.
SapNeeded == {"Vendor_Ref", "Component Col. Des.", "Head Material Group"}
PlmNeeded == {"Size_Split_ID", "Vendor_Ref", "Color Name", "Position",
              "Style", "Material_ID"}
SizeChartNeeded == {"Size_Split_ID", "Size"}

PreprocessRaises(sap, plm, chart) ==
    \/ ~(SizeChartNeeded \subseteq Columns(Rename(chart, SizeChartRenames)))
    \/ ~(PlmNeeded \subseteq Columns(Rename(plm, PlmRenames)))
    \/ ~(SapNeeded \subseteq Columns(Rename(sap, SapRenames)))

\* Lines 50-92 for the PLM side.
PlmExploded(plm, chart) ==
    LET e == Explode(MergeLeft(Rename(plm, PlmRenames),
                               Rename(chart, SizeChartRenames)))
    IN  [k \in 1..Len(e) |->
            [e[k] EXCEPT !.row = WithMatchKey(@, "Vendor_Ref", "Color Name", "Position")]]

\* Lines 50-92 for the SAP side.
SapKeyed(sap) ==
    LET r == Rename(sap, SapRenames)
    IN  [k \in 1..Len(r) |->
            WithMatchKey(r[k], "Vendor_Ref", "Component Col. Des.",
                         "Head Material Group")]

---------------------------------------------------------------------------
(* Uploaded files.                                                         *)

SapStyles == {"ST1", "ST2"}
SapMaterials == {"M1"}
SapSizes == {<<"S">>, <<"M">>}
SapVendorRefs == {<<"a", " ", "b">>}
SapQuantities == {10}

PlmStyles == {"ST1"}
PlmMaterials == {"M1", "M2"}
PlmVendorRefs == {<<"a", " ", "b">>, <<"b", " ", "a">>}
PlmQuantities == {7}
PlmSizeSplits == {"SS1"}

SapRows ==
    {("Material" :> m) @@ ("Customer Style" :> st) @@ ("Vendor Reference" :> v)
     @@ ("Comp.Qty." :> q) @@ ("Component Grv" :> sz)
     @@ ("Component Col. Des." :> <<"r">>) @@ ("Head Material Group" :> <<"1">>) :
        m \in SapMaterials, st \in SapStyles, v \in SapVendorRefs,
        q \in SapQuantities, sz \in SapSizes}

PlmRows ==
    {("Material" :> m) @@ ("Customer Style" :> st) @@ ("Vendor Reference" :> v)
     @@ ("Qty(Cons.)" :> q) @@ ("Size Split" :> ss)
     @@ ("Color Name" :> <<"r">>) @@ ("Position" :> <<"1">>) :
        m \in PlmMaterials, st \in PlmStyles, v \in PlmVendorRefs,
        q \in PlmQuantities, ss \in PlmSizeSplits}

SizeChartRow(id, sizes) == ("Size Split" :> id) @@ ("Size List" :> sizes)

\* The size charts: two sizes with a blank to trim, one size, an empty cell,
\* and a chart without entry for the PLM rows' id.
SizeCharts ==
    {<<SizeChartRow("SS1", <<"S", ",", " ", "M">>)>>,
     <<SizeChartRow("SS1", <<"M">>)>>,
     <<SizeChartRow("SS1", NaN)>>,
     <<SizeChartRow("SS2", <<"S">>)>>}

SapFiles == UNION {[1..n -> SapRows] : n \in 1..MaxSap}
PlmFiles == UNION {[1..n -> PlmRows] : n \in 1..MaxPlm}

\* A file without one of its columns.
DropColumn(df, c) == [k \in 1..Len(df) |-> [x \in DOMAIN df[k] \ {c} |-> df[k][x]]]

\* The source columns of the fields the matching reads on each side.
SapRequired == {"Customer Style", "Material", "Component Grv"}
PlmRequired == {"Customer Style", "Material", "Size Split"}

\* The Match_Keys the uploads can give rise to, and the scorer of line 114
\* tabulated over them.
SapMatchKeys == {SapKeyed(<<r>>)[1]["Match_Key"] : r \in SapRows}
PlmMatchKeys ==
    {WithMatchKey(RenameRow(r, PlmRenames), "Vendor_Ref", "Color Name",
                  "Position")["Match_Key"] : r \in PlmRows}
ScoreTable ==
    [q \in SapMatchKeys, c \in PlmMatchKeys |-> token_sort_ratio(q, c)]

scorer(query, choice) == ScoreTable[query, choice]

---------------------------------------------------------------------------
(* Matching.                                                               *)

\* Series.add_prefix / Series.to_dict: every label of the row gets the prefix.
add_prefix(row, prefix) ==
    [c \in {prefix \o k : k \in DOMAIN row} |->
        row[CHOOSE k \in DOMAIN row : prefix \o k = c]]

\* extractOne taking the first choice that reaches the cutoff, not the best one.
extractOne_first_above(query, choices, cutoff) ==
    LET score(j) == scorer(query, choices[j].key)
        ok == {j \in 1..Len(choices) : score(j) >= cutoff}
        first == CHOOSE j \in ok : \A h \in ok : j <= h
    IN  IF ok # {}
        THEN <<choices[first].key, score(first), choices[first].idx>>
        ELSE <<>>

\* extractOne keeping the last of several equal best scores.
extractOne_last_best(query, choices, cutoff) ==
    LET score(j) == scorer(query, choices[j].key)
        best == CHOOSE j \in 1..Len(choices) :
                    /\ \A h \in 1..Len(choices) : score(h) <= score(j)
                    /\ \A h \in (j + 1)..Len(choices) : score(h) < score(j)
    IN  IF choices # <<>> /\ score(best) >= cutoff
        THEN <<choices[best].key, score(best), choices[best].idx>>
        ELSE <<>>

\* extractOne with a strict cutoff: a score equal to it is dropped.
extractOne_strict(query, choices, cutoff) ==
    LET score(j) == scorer(query, choices[j].key)
        best == CHOOSE j \in 1..Len(choices) :
                    /\ \A h \in 1..Len(choices) : score(h) <= score(j)
                    /\ \A h \in 1..(j - 1) : score(h) < score(j)
    IN  IF choices # <<>> /\ score(best) > cutoff
        THEN <<choices[best].key, score(best), choices[best].idx>>
        ELSE <<>>

\* process.extractOne(query, choices, scorer=fuzz.token_sort_ratio,
\* score_cutoff=cutoff) on a Series: choices is a sequence of [idx, key].  The
\* best score wins, the first of several equal ones; below the cutoff there is
\* no result (the empty tuple stands for None).
extractOne(query, choices, cutoff) ==
    LET score(j) == scorer(query, choices[j].key)
        best == CHOOSE j \in 1..Len(choices) :
                    /\ \A h \in 1..Len(choices) : score(h) <= score(j)
                    /\ \A h \in 1..(j - 1) : score(h) < score(j)
    IN  IF choices # <<>> /\ score(best) >= cutoff
        THEN <<choices[best].key, score(best), choices[best].idx>>
        ELSE <<>>

\* plm_group_filtered without the Size filter of line 107.
plm_group_any_size(sap_row, exploded) ==
    IF ~({"Style", "Material_ID"} \subseteq DOMAIN sap_row) THEN <<>>
    ELSE Where(exploded, {e \in Rows(exploded) :
                /\ e.row["Style"] = sap_row["Style"]
                /\ e.row["Material_ID"] = sap_row["Material_ID"]})

\* Lines 104-107: the exploded PLM rows of the SAP row's Style and Material_ID
\* (get_group), then those of its Size; positions into exploded.  The empty
\* sequence also stands for the KeyError that line 130 swallows: no such group,
\* or a SAP row without the column.
plm_group_filtered(sap_row, exploded) ==
    IF ~({"Style", "Material_ID"} \subseteq DOMAIN sap_row) THEN <<>>
    ELSE LET plm_group == Where(exploded, {e \in Rows(exploded) :
                            /\ e.row["Style"] = sap_row["Style"]
                            /\ e.row["Material_ID"] = sap_row["Material_ID"]})
         IN  IF plm_group = <<>> \/ "Size" \notin DOMAIN sap_row THEN <<>>
             ELSE SelectSeq(plm_group,
                            LAMBDA p : exploded[p].row["Size"] = sap_row["Size"])

\* Lines 109-116: the best match of the SAP row among the given positions.
best_match(sap_row, exploded, filtered, threshold) ==
    IF filtered = <<>> THEN <<>>
    ELSE extractOne(sap_row["Match_Key"],
                    [j \in 1..Len(filtered) |->
                        [idx |-> exploded[filtered[j]].idx,
                         key |-> exploded[filtered[j]].row["Match_Key"]]],
                    threshold)

\* plm_group_filtered.loc[plm_index]: the position of the row with that label.
Loc(exploded, filtered, plm_index) ==
    filtered[CHOOSE j \in 1..Len(filtered) :
                /\ exploded[filtered[j]].idx = plm_index
                /\ \A h \in 1..(j - 1) : exploded[filtered[h]].idx # plm_index]

\* Lines 123-125.
combined_row(sap_row, plm_row, score) ==
    ("Status" :> "Matched") @@ ("Similarity_Score" :> score)
    @@ add_prefix(plm_row, "PLM_") @@ sap_row

\* Lines 135-136.
unmatched_sap(sap_row) == ("Status" :> "Unmatched SAP") @@ sap_row

\* Lines 142-143.
unmatched_plm(plm_row) == ("Status" :> "Unmatched PLM") @@ add_prefix(plm_row, "PLM_")

\* Line 140: the exploded rows whose index label was never matched.
unmatched_plm_df(exploded, matched) ==
    Where(exploded, {e \in Rows(exploded) : e.idx \notin matched})

\* The loop body without the continue of line 128: a matched SAP row falls
\* through and is added as unmatched too.
loop_body_falls_through(sap_row, a, exploded, threshold) ==
    LET filtered == plm_group_filtered(sap_row, exploded)
        best == best_match(sap_row, exploded, filtered, threshold)
        unmatched == <<[row |-> unmatched_sap(sap_row),
                        from |-> [a |-> a, b |-> 0],
                        marks |-> {}]>>
    IN  IF best # <<>>
        THEN LET b == Loc(exploded, filtered, best[3])
             IN  <<[row |-> combined_row(sap_row, exploded[b].row, best[2]),
                    from |-> [a |-> a, b |-> b],
                    marks |-> {best[3]}]>> \o unmatched
        ELSE unmatched

\* One pass of the loop of lines 101-137 for the SAP row at position a: the
\* entries it appends to results, each with its provenance (a, and the position
\* b of the exploded PLM row in it, 0 for none) and the index label it marks.
loop_body(sap_row, a, exploded, threshold) ==
    LET filtered == plm_group_filtered(sap_row, exploded)
        best == best_match(sap_row, exploded, filtered, threshold)
    IN  IF best # <<>>
        THEN LET b == Loc(exploded, filtered, best[3])
             IN  <<[row |-> combined_row(sap_row, exploded[b].row, best[2]),
                    from |-> [a |-> a, b |-> b],
                    marks |-> {best[3]}]>>
        ELSE <<[row |-> unmatched_sap(sap_row),
                from |-> [a |-> a, b |-> 0],
                marks |-> {}]>>

---------------------------------------------------------------------------
(* The page.                                                               *)

SliderMin == 50
SliderMax == 100
DefaultThreshold == 70

\* The slider positions the model moves between.
SliderStops == {t \in {DefaultThreshold, SliderMax} : SliderMin <= t /\ t <= SliderMax}

\* DataFrame(results).columns: every key of every result dict.
ReportColumns(report) == UNION {DOMAIN report[k] : k \in 1..Len(report)}

\* Line 197: positions of the report's rows with Status 'Matched'.
matched_df(report) == Where(report, {r \in Rows(report) : r["Status"] = "Matched"})

\* Line 211 on one row of the report: a result dict without one of the two keys
\* has a missing value there, and so a missing difference.
Diff(row) ==
    IF {"SAP_Consumption", "PLM_Consumption"} \subseteq DOMAIN row
    THEN row["SAP_Consumption"] - row["PLM_Consumption"]
    ELSE NaN

---------------------------------------------------------------------------
(* The state machine.                                                      *)

\* Before the first script run: the three files are uploaded, the slider is at
\* its default, nothing is cached.
Start(sap, plm, chart) ==
    /\ sap_file = sap
    /\ plm_file = plm
    /\ size_chart_file = chart
    /\ similarity_threshold = DefaultThreshold
    /\ pc = "start"
    /\ cache = <<>>
    /\ sap_df = <<>>
    /\ plm_exploded_df = <<>>
    /\ next_row = 0
    /\ results = <<>>
    /\ provenance = <<>>
    /\ matched_plm_indices = {}
    /\ final_report_df = <<>>
    /\ final_provenance = <<>>
    /\ Consumption_Diff = <<>>

Init ==
    \E sap \in SapFiles, plm \in PlmFiles, chart \in SizeCharts :
        Start(sap, plm, chart)

\* Files of which one lacks a required column.
InitSchema ==
    \E sap \in SapFiles, plm \in PlmFiles, chart \in SizeCharts :
        \/ \E c \in SapRequired : Start(DropColumn(sap, c), plm, chart)
        \/ \E c \in PlmRequired : Start(sap, DropColumn(plm, c), chart)

files == <<sap_file, plm_file, size_chart_file>>
locals == <<sap_df, plm_exploded_df, next_row, results, provenance,
            matched_plm_indices>>
page == <<final_report_df, final_provenance, Consumption_Diff>>

\* Line 194 on a cache miss, lines 50-99: the frames are prepared and the loop
\* is entered; a KeyError here leaves run_matching_logic and ends in line 266.
Preprocess ==
    /\ pc = "start"
    /\ similarity_threshold \notin DOMAIN cache
    /\ IF PreprocessRaises(sap_file, plm_file, size_chart_file)
       THEN /\ pc' = "failed"
            /\ UNCHANGED locals
       ELSE /\ pc' = "loop"
            /\ sap_df' = SapKeyed(sap_file)
            /\ plm_exploded_df' = PlmExploded(plm_file, size_chart_file)
            /\ next_row' = 1
            /\ results' = <<>>
            /\ provenance' = <<>>
            /\ matched_plm_indices' = {}
    /\ UNCHANGED <<files, similarity_threshold, cache, page>>

\* Line 194 on a cache hit: the stored report is returned, the body does not run.
CacheHit ==
    /\ pc = "start"
    /\ similarity_threshold \in DOMAIN cache
    /\ final_report_df' = cache[similarity_threshold].report
    /\ final_provenance' = cache[similarity_threshold].provenance
    /\ pc' = "returned"
    /\ UNCHANGED <<files, similarity_threshold, cache, locals, Consumption_Diff>>

\* Lines 101-137 for one SAP row.
MatchRow ==
    /\ pc = "loop"
    /\ next_row <= Len(sap_df)
    /\ LET out == loop_body(sap_df[next_row], next_row, plm_exploded_df,
                            similarity_threshold)
       IN  /\ results' = results \o [k \in 1..Len(out) |-> out[k].row]
           /\ provenance' = provenance \o [k \in 1..Len(out) |-> out[k].from]
           /\ matched_plm_indices' =
                  matched_plm_indices \cup UNION {out[k].marks : k \in 1..Len(out)}
    /\ next_row' = next_row + 1
    /\ UNCHANGED <<files, similarity_threshold, pc, cache, sap_df, plm_exploded_df,
                   page>>

\* Lines 140-144: the exploded PLM rows whose index label was never matched are
\* added as unmatched.
AddUnmatchedPlm ==
    /\ pc = "loop"
    /\ next_row > Len(sap_df)
    /\ LET rest == unmatched_plm_df(plm_exploded_df, matched_plm_indices)
       IN  /\ results' = results \o
                  [k \in 1..Len(rest) |-> unmatched_plm(plm_exploded_df[rest[k]].row)]
           /\ provenance' = provenance \o
                  [k \in 1..Len(rest) |-> [a |-> 0, b |-> rest[k]]]
    /\ pc' = "tail"
    /\ UNCHANGED <<files, similarity_threshold, cache, sap_df, plm_exploded_df,
                   next_row, matched_plm_indices, page>>

\* Line 146 and the return to line 194: the report is returned and cached, and
\* the function's locals are gone.
ReturnReport ==
    /\ pc = "tail"
    /\ final_report_df' = results
    /\ final_provenance' = provenance
    /\ cache' = (similarity_threshold :>
                    [report |-> results, provenance |-> provenance]) @@ cache
    /\ pc' = "returned"
    /\ sap_df' = <<>>
    /\ plm_exploded_df' = <<>>
    /\ next_row' = 0
    /\ results' = <<>>
    /\ provenance' = <<>>
    /\ matched_plm_indices' = {}
    /\ UNCHANGED <<files, similarity_threshold, Consumption_Diff>>

\* Lines 197-264: the metrics, and for a report with matched rows the difference
\* column; a column the report lacks raises KeyError, which ends in line 266.
Display ==
    /\ pc = "returned"
    /\ LET rows == matched_df(final_report_df)
       IN  IF rows = <<>>
           THEN /\ pc' = "shown"
                /\ Consumption_Diff' = <<>>
           ELSE IF {"SAP_Consumption", "PLM_Consumption"}
                       \subseteq ReportColumns(final_report_df)
           THEN /\ pc' = "shown"
                /\ Consumption_Diff' =
                       [k \in 1..Len(rows) |-> Diff(final_report_df[rows[k]])]
           ELSE /\ pc' = "failed"
                /\ Consumption_Diff' = <<>>
    /\ UNCHANGED <<files, similarity_threshold, cache, locals, final_report_df,
                   final_provenance>>

\* Lines 166-172: the slider is set (or any widget touched) and the script runs
\* again from the top on the same uploads.
Rerun(t) ==
    /\ pc \in {"shown", "failed"}
    /\ similarity_threshold' = t
    /\ pc' = "start"
    /\ final_report_df' = <<>>
    /\ final_provenance' = <<>>
    /\ Consumption_Diff' = <<>>
    /\ UNCHANGED <<files, cache, locals>>

Next ==
    \/ Preprocess
    \/ CacheHit
    \/ MatchRow
    \/ AddUnmatchedPlm
    \/ ReturnReport
    \/ Display
    \/ \E t \in SliderStops : Rerun(t)

Spec == Init /\ [][Next]_vars

SpecSchema == InitSchema /\ [][Next]_vars

---------------------------------------------------------------------------
(* Properties.  Those about one run are stated where its result is complete *)
(* and its frames are still at hand: after line 144, before the return.     *)

ResultComplete == pc = "tail"

\* Positions of the results that hold SAP row a, and exploded PLM row b.
ResultsOfA(a) == {k \in 1..Len(provenance) : provenance[k].a = a}
ResultsOfB(b) == {k \in 1..Len(provenance) : provenance[k].b = b}

\* Positions of the results that are a pair.
PairResults == {k \in 1..Len(provenance) : provenance[k].a # 0 /\ provenance[k].b # 0}

WithStatus(s) == {k \in 1..Len(results) : results[k]["Status"] = s}

\* The exploded PLM rows with the Style, Material_ID and Size of SAP row a.
Bucket(a) ==
    {p \in 1..Len(plm_exploded_df) :
        /\ plm_exploded_df[p].row["Style"] = sap_df[a]["Style"]
        /\ plm_exploded_df[p].row["Material_ID"] = sap_df[a]["Material_ID"]
        /\ plm_exploded_df[p].row["Size"] = sap_df[a]["Size"]}

ScoreOf(a, p) ==
    token_sort_ratio(sap_df[a]["Match_Key"], plm_exploded_df[p].row["Match_Key"])

MaxScore(a) ==
    CHOOSE s \in {ScoreOf(a, p) : p \in Bucket(a)} :
        \A p \in Bucket(a) : ScoreOf(a, p) <= s

\* The (SAP row, exploded PLM row) pairs of a report.
Pairs(origin) ==
    {<<origin[k].a, origin[k].b>> :
        k \in {j \in 1..Len(origin) : origin[j].a # 0 /\ origin[j].b # 0}}

\* C1: in the result of a run no exploded PLM row is paired with more than one
\* SAP row.
C1_NoDoubleClaim ==
    ResultComplete =>
        \A i, j \in PairResults : i # j => provenance[i].b # provenance[j].b

\* C2: every exploded PLM row is in exactly one result row, as the PLM half of
\* a Matched row or as an Unmatched PLM row, so the Unmatched PLM rows and the
\* PLM rows in matches add up to the exploded rows.
C2_BSideConservation ==
    ResultComplete =>
        /\ \A b \in 1..Len(plm_exploded_df) : Cardinality(ResultsOfB(b)) = 1
        /\ Cardinality(WithStatus("Unmatched PLM"))
             + Cardinality({provenance[k].b : k \in PairResults})
           = Len(plm_exploded_df)

\* C3: every SAP row is in exactly one result row, which carries its cells and
\* has status Matched or Unmatched SAP, so the Unmatched SAP and the Matched
\* rows add up to the SAP rows.
C3_ASideConservation ==
    ResultComplete =>
        /\ \A a \in 1..Len(sap_df) :
              /\ Cardinality(ResultsOfA(a)) = 1
              /\ \A k \in ResultsOfA(a) :
                    /\ results[k]["Status"] \in {"Matched", "Unmatched SAP"}
                    /\ \A c \in DOMAIN sap_df[a] : results[k][c] = sap_df[a][c]
        /\ Len(sap_df) = Len(sap_file)
        /\ Cardinality(WithStatus("Unmatched SAP")) + Cardinality(WithStatus("Matched"))
           = Len(sap_file)

C3_Witness ==
    /\ ResultComplete
    /\ WithStatus("Matched") # {}
    /\ WithStatus("Unmatched SAP") # {}

\* C4: of two reports on the same uploads, the one for the higher threshold has
\* no pair the one for the lower threshold lacks.
C4_ThresholdMonotone ==
    \A t1, t2 \in DOMAIN cache :
        t1 < t2 => Pairs(cache[t2].provenance) \subseteq Pairs(cache[t1].provenance)

C4_Witness ==
    \E t1, t2 \in DOMAIN cache :
        /\ t1 < t2
        /\ Pairs(cache[t1].provenance) # Pairs(cache[t2].provenance)

\* A file lacks a column the matching reads.
MissingRequired ==
    \/ ~(SapRequired \subseteq Columns(sap_file))
    \/ ~(PlmRequired \subseteq Columns(plm_file))

\* C5: with a required column missing the run fails before a row is matched,
\* and no report is returned.
C5_MissingFieldAborts ==
    MissingRequired => final_report_df = <<>>

\* C6: once the page is through, every Matched row of the report has its
\* consumption difference, the SAP quantity minus the quantity of the PLM row
\* paired with it.
C6_SignConvention ==
    (pc \in {"shown", "failed"} /\ final_report_df # <<>>) =>
        LET rows == matched_df(final_report_df)
            exploded == PlmExploded(plm_file, size_chart_file)
        IN  /\ Len(Consumption_Diff) = Len(rows)
            /\ \A k \in 1..Len(rows) :
                  Consumption_Diff[k] =
                      sap_file[final_provenance[rows[k]].a]["Comp.Qty."]
                      - exploded[final_provenance[rows[k]].b].row["PLM_Consumption"]

\* C7: the PLM row of a pair has the highest score of its bucket and is the
\* first there to have it; the results are the SAP rows in file order, then the
\* unmatched PLM rows in frame order.
C7_FirstOfTiesWins ==
    ResultComplete =>
        /\ \A k \in PairResults :
              LET a == provenance[k].a
                  b == provenance[k].b
              IN  /\ b \in Bucket(a)
                  /\ \A p \in Bucket(a) :
                        /\ ScoreOf(a, p) <= ScoreOf(a, b)
                        /\ p < b => ScoreOf(a, p) < ScoreOf(a, b)
        /\ \A i, j \in 1..Len(provenance) :
              i < j =>
                  /\ provenance[j].a # 0 => provenance[i].a # 0
                  /\ provenance[j].a # 0 => provenance[i].a < provenance[j].a
                  /\ provenance[i].a = 0 => provenance[i].b < provenance[j].b

C7_Witness ==
    /\ ResultComplete
    /\ \E k \in PairResults :
          \E p \in Bucket(provenance[k].a) :
              /\ p # provenance[k].b
              /\ ScoreOf(provenance[k].a, p)
                   = ScoreOf(provenance[k].a, provenance[k].b)

\* C8: the two halves of a Matched row agree on Style, Material_ID and Size,
\* and a SAP row with no exploded PLM row of its Style, Material_ID and Size is
\* Unmatched SAP.
C8_PartitionIsolation ==
    ResultComplete =>
        /\ \A k \in PairResults :
              /\ provenance[k].b \in Bucket(provenance[k].a)
              /\ results[k]["Status"] = "Matched"
              /\ results[k]["PLM_Style"] = results[k]["Style"]
              /\ results[k]["PLM_Material_ID"] = results[k]["Material_ID"]
              /\ results[k]["PLM_Size"] = results[k]["Size"]
        /\ \A k \in WithStatus("Matched") : k \in PairResults
        /\ \A a \in 1..Len(sap_df) :
              Bucket(a) = {} =>
                  \A k \in ResultsOfA(a) : results[k]["Status"] = "Unmatched SAP"

C8_Witness ==
    /\ ResultComplete
    /\ PairResults # {}
    /\ \E a \in 1..Len(sap_df) :
          /\ Bucket(a) = {}
          /\ ResultsOfA(a) \subseteq WithStatus("Unmatched SAP")
          /\ \E p \in 1..Len(plm_exploded_df) :
                /\ plm_exploded_df[p].row["Style"] = sap_df[a]["Style"]
                /\ plm_exploded_df[p].row["Material_ID"] = sap_df[a]["Material_ID"]

\* C9: a SAP row with a non-empty bucket is Matched exactly when the highest
\* score of the bucket is at least the threshold, and Unmatched SAP otherwise;
\* the score of a Matched row lies between the threshold and 100.
C9_InclusiveThreshold ==
    ResultComplete =>
        /\ \A a \in 1..Len(sap_df) :
              Bucket(a) # {} =>
                  \A k \in ResultsOfA(a) :
                      /\ results[k]["Status"] = "Matched"
                            <=> MaxScore(a) >= similarity_threshold
                      /\ results[k]["Status"] = "Unmatched SAP"
                            <=> MaxScore(a) < similarity_threshold
        /\ \A k \in WithStatus("Matched") :
              /\ similarity_threshold <= results[k]["Similarity_Score"]
              /\ results[k]["Similarity_Score"] <= 100

C9_Witness ==
    /\ ResultComplete
    /\ \E k \in WithStatus("Matched") :
          results[k]["Similarity_Score"] = similarity_threshold

\* The text without its blanks.
Unblanked(s) == SelectSeq(s, LAMBDA c : c # " ")

\* The records of PLM row k: with one chart entry per id at most, those with
\* index label k - 1.
RecordsOf(k) == Where(plm_exploded_df, {e \in Rows(plm_exploded_df) : e.idx = k - 1})

\* The size list the chart gives for PLM row k; empty for none.
SizeListOf(k) ==
    LET hits == {j \in 1..Len(size_chart_file) :
                    size_chart_file[j]["Size Split"] = plm_file[k]["Size Split"]}
        only == CHOOSE j \in hits : TRUE
    IN  IF hits = {} \/ size_chart_file[only]["Size List"] = NaN THEN <<>>
        ELSE size_chart_file[only]["Size List"]

\* C10: a PLM row gives one record per label of its size list, in order, with
\* the label trimmed as Size and the row's other cells unchanged; a row with
\* an empty size or no chart entry gives one record with an empty Size.
C10_SizeExpansion ==
    pc = "loop" =>
        /\ \A p \in 1..Len(plm_exploded_df) :
              plm_exploded_df[p].idx \in 0..(Len(plm_file) - 1)
        /\ \A k \in 1..Len(plm_file) :
              LET recs == RecordsOf(k)
                  list == SizeListOf(k)
                  size(j) == plm_exploded_df[recs[j]].row["Size"]
              IN  /\ Len(recs) = 1 + Len(SelectSeq(list, LAMBDA c : c = ","))
                  /\ list = <<>> => size(1) = <<>>
                  /\ Unblanked(Join([j \in 1..Len(recs) |-> size(j)], <<",">>))
                       = Unblanked(list)
                  /\ \A j \in 1..Len(recs) :
                        /\ \A h \in 1..Len(size(j)) : size(j)[h] # ","
                        /\ size(j) # <<>> =>
                              size(j)[1] # " " /\ size(j)[Len(size(j))] # " "
                        /\ \A c \in DOMAIN plm_file[k] \ {"Size Split"} :
                              plm_exploded_df[recs[j]].row[
                                  IF c \in DOMAIN PlmRenames THEN PlmRenames[c] ELSE c]
                              = plm_file[k][c]

C10_Witness ==
    /\ pc = "loop"
    /\ \E k \in 1..Len(plm_file) :
          /\ Len(RecordsOf(k)) = 2
          /\ \E h \in 1..Len(SizeListOf(k)) : SizeListOf(k)[h] = " "

====
